---- MODULE Spec2Model ----
(***************************************************************************)
(* A model of geo.hpp: fixed-size matrices and their determinants, the     *)
(* exact Fraction type with its gcd-based reduce(), and the orientation    *)
(* and intersection predicates on integer points and segments.             *)
(*                                                                         *)
(* The template parameter T is instantiated with a signed integer type.    *)
(* All inputs are drawn from ranges small enough that no product leaves    *)
(* the range of a 32-bit int, so T's arithmetic is that of the integers.   *)
(* The C++ operators / and % on T truncate toward zero; they are modelled  *)
(* by Quot and Rem, not by TLA+'s \div and %.                              *)
(***************************************************************************)
EXTENDS Integers, Sequences, FiniteSets, TLC

\* Coordinates of the points handed to the predicates: -MaxCoord..MaxCoord.
MaxCoord == 1

\* Matrix entries handed to det: -1..MaxEntry.
MaxEntry == 1

\* Numerators and denominators handed to Fraction(n, d): -MaxNum..MaxNum.
MaxNum == 2

\* Numerator and denominator of the one Fraction of ReduceSpec:
\* -MaxReduce..MaxReduce.
MaxReduce == 8

\* How many Fraction objects the caller keeps alive at once.
MaxFracs == 1

VARIABLES
    op,      \* the library call whose result the state holds ("none" before it)
    seg1,    \* first segment argument, [first |-> Point, second |-> Point]
    seg2,    \* second segment argument
    point,   \* point argument, [x |-> T, y |-> T]
    mat,     \* matrix argument: the vals array, row-major
    prev,    \* det of the matrix before its rows were swapped
    args,    \* the arguments of a constructor call, <<numerator, denominator>>
    ret,     \* the call's return value
    fracs,   \* the values of the Fraction objects that exist
    pc,      \* position inside Fraction::reduce: "idle" or "gcd"
    cur,     \* the Fraction reduce() was called on (*this)
    form,    \* which overload of reduce() runs: "const" or "inplace"
    a,       \* gcd's local a
    b,       \* gcd's local b
    err      \* "none", or "domain_error" when the last constructor threw

vars == <<op, seg1, seg2, point, mat, prev, args, ret, fracs, pc, cur, form, a, b, err>>

----------------------------------------------------------------------------
(* Arithmetic of T *)

Abs(v) == IF v < 0 THEN -v ELSE v

\* T's operator/ : integer division truncating toward zero (w # 0).
Quot(v, w) ==
    IF (v < 0) = (w < 0) THEN Abs(v) \div Abs(w) ELSE -(Abs(v) \div Abs(w))

\* T's operator% : the remainder of truncating division (sign of the dividend).
Rem(v, w) == v - w * Quot(v, w)

\* A bool converted to T, as in a comparison of a bool with a T.
BoolToT(t) == IF t THEN 1 ELSE 0

Min(v, w) == IF w < v THEN w ELSE v

Max(v, w) == IF v < w THEN w ELSE v

----------------------------------------------------------------------------
(* Matrix3x3, Matrix2x2 and det *)

\* Matrix3x3::operator[]({col, row}) on the vals array (1-based here).
At3(m, col, row) == m[row * 3 + col + 1]

\* Matrix2x2::operator[]({col, row}).
At2(m, col, row) == m[row * 2 + col + 1]

\* det3 with the sign of its last product slipped.
det3_signslip(m) ==
      At3(m, 0, 0) * At3(m, 1, 1) * At3(m, 2, 2)
    + At3(m, 0, 1) * At3(m, 1, 2) * At3(m, 2, 0)
    + At3(m, 0, 2) * At3(m, 1, 0) * At3(m, 2, 1)
    - At3(m, 2, 0) * At3(m, 1, 1) * At3(m, 0, 2)
    - At3(m, 2, 1) * At3(m, 1, 2) * At3(m, 0, 0)
    + At3(m, 2, 2) * At3(m, 1, 0) * At3(m, 0, 1)

det3(m) ==
      At3(m, 0, 0) * At3(m, 1, 1) * At3(m, 2, 2)
    + At3(m, 0, 1) * At3(m, 1, 2) * At3(m, 2, 0)
    + At3(m, 0, 2) * At3(m, 1, 0) * At3(m, 2, 1)
    - At3(m, 2, 0) * At3(m, 1, 1) * At3(m, 0, 2)
    - At3(m, 2, 1) * At3(m, 1, 2) * At3(m, 0, 0)
    - At3(m, 2, 2) * At3(m, 1, 0) * At3(m, 0, 1)

det2(m) == At2(m, 0, 0) * At2(m, 1, 1) - At2(m, 1, 0) * At2(m, 0, 1)

\* sgn with `value <= 0` for `value < 0`.
sgn_le(value) == BoolToT(0 < value) - BoolToT(value <= 0)

sgn(value) == BoolToT(0 < value) - BoolToT(value < 0)

----------------------------------------------------------------------------
(* Points, segments and the predicates *)

Point(x, y) == [x |-> x, y |-> y]

Seg(p, q) == [first |-> p, second |-> q]

side(seg, p) ==
    sgn(det3(<<seg.first.x, seg.first.y, 1,
               seg.second.x, seg.second.y, 1,
               p.x, p.y, 1>>))

same_side(seg, point1, point2) == side(seg, point1) = side(seg, point2)

\* `lo <= v <= hi` in C++ is `(lo <= v) <= hi`: the bool is converted to T.
Chained(lo, v, hi) == BoolToT(lo <= v) <= hi

seg_contains(seg, p) ==
    /\ side(seg, p) = 0
    /\ Chained(Min(seg.first.x, seg.second.x), p.x, Max(seg.first.x, seg.second.x))
    /\ Chained(Min(seg.first.y, seg.second.y), p.y, Max(seg.first.y, seg.second.y))

seg_intersects(s1, s2) ==
    \/ (~same_side(s1, s2.first, s2.second) /\ ~same_side(s2, s1.first, s1.second))
    \/ seg_contains(s1, s2.first)
    \/ seg_contains(s1, s2.second)
    \/ seg_contains(s2, s1.first)
    \/ seg_contains(s2, s1.second)

----------------------------------------------------------------------------
(* gcd and Fraction *)

RECURSIVE gcd_abs(_, _)
\* gcd returning the absolute value of its result.
gcd_abs(x, y) == IF y # 0 THEN gcd_abs(y, Rem(x, y)) ELSE Abs(x)

RECURSIVE gcd(_, _)
\* while (b) { c = b; b = a % b; a = c; } return a;
gcd(x, y) == IF y # 0 THEN gcd(y, Rem(x, y)) ELSE x

\* The constructor without its test of the denominator.
Fraction_nocheck(numerator, denominator) ==
    {[num |-> numerator, den |-> denominator]}

\* The constructor. The result is the set of objects the call constructs:
\* one object holding both arguments, or none when domain_error is thrown.
Fraction(numerator, denominator) ==
    IF denominator # 0
    THEN {[num |-> numerator, den |-> denominator]}
    ELSE {}

\* The in-place reduce() without `den /= div`.
reduce_inplace_numonly(f, div) == [num |-> Quot(f.num, div), den |-> f.den]

\* The body of the in-place reduce() once div is known: num /= div; den /= div.
reduce_inplace(f, div) == [num |-> Quot(f.num, div), den |-> Quot(f.den, div)]

\* The body of the returning reduce() once div is known: {num / div, den / div},
\* a constructor call.
reduce_const(f, div) == Fraction(Quot(f.num, div), Quot(f.den, div))

----------------------------------------------------------------------------
(* seg_intersection *)

\* det of the matrix den.
den_det(s1, s2) ==
    det2(<<s1.first.x - s1.second.x, s1.first.y - s1.second.y,
           s2.first.x - s2.second.x, s2.first.y - s2.second.y>>)

det_m(s) == det2(<<s.first.x, s.first.y, s.second.x, s.second.y>>)

\* xnum built with seg1's y difference in place of its x difference.
x_num_ycopy(s1, s2) ==
    det2(<<det_m(s1), s1.first.y - s1.second.y,
           det_m(s2), s2.first.x - s2.second.x>>)

\* det of the matrix xnum.
x_num(s1, s2) ==
    det2(<<det_m(s1), s1.first.x - s1.second.x,
           det_m(s2), s2.first.x - s2.second.x>>)

\* det of the matrix ynum.
y_num(s1, s2) ==
    det2(<<det_m(s1), s1.first.y - s1.second.y,
           det_m(s2), s2.first.y - s2.second.y>>)

\* The return value: kind "absent" is the empty optional, kind "point" holds
\* the two reduced fractions. The function is noexcept, so a constructor that
\* throws ends the program (kind "terminate"); a division by a zero gcd is
\* undefined behaviour (kind "undefined").
seg_intersection(s1, s2) ==
    IF den_det(s1, s2) = 0
    THEN [kind |-> "absent"]
    ELSE LET fx == Fraction(x_num(s1, s2), den_det(s1, s2))
             fy == Fraction(y_num(s1, s2), den_det(s1, s2))
         IN  IF fx = {} \/ fy = {}
             THEN [kind |-> "terminate"]
             ELSE LET x == CHOOSE f \in fx : TRUE
                      y == CHOOSE f \in fy : TRUE
                      xdiv == gcd(x.num, x.den)
                      ydiv == gcd(y.num, y.den)
                  IN  IF xdiv = 0 \/ ydiv = 0
                      THEN [kind |-> "undefined"]
                      ELSE [kind |-> "point",
                            x |-> reduce_inplace(x, xdiv),
                            y |-> reduce_inplace(y, ydiv)]

----------------------------------------------------------------------------
(* Inputs *)

Coords == (-MaxCoord)..MaxCoord

Points == [x : Coords, y : Coords]

Segs == [first : Points, second : Points]

Entries == (-1)..MaxEntry

Mats2 == [1..4 -> Entries]

Mats3 == [1..9 -> Entries]

Nums == (-MaxNum)..MaxNum

ReduceNums == (-MaxReduce)..MaxReduce

\* Segments handed to seg_intersection while Fraction objects are alive.
SmallPoints == [x : 0..MaxCoord, y : 0..MaxCoord]

SmallSegs == [first : SmallPoints, second : SmallPoints]

\* Values of the variables a specification does not use.
NoPoint == Point(0, 0)

NoSeg == Seg(NoPoint, NoPoint)

NoFrac == [num |-> 0, den |-> 0]

\* The return value of a call that returns nothing.
NoRet == [kind |-> "none"]

FracIdle ==
    /\ args = <<>>
    /\ fracs = {}
    /\ pc = "idle"
    /\ cur = NoFrac
    /\ form = "none"
    /\ a = 0
    /\ b = 0
    /\ err = "none"

fracVars == <<args, fracs, pc, cur, form, a, b, err>>

geoVars == <<seg1, seg2, point>>

detVars == <<mat, prev>>

----------------------------------------------------------------------------
(* PointSpec: one call of a predicate on a segment and a point *)

PointInit ==
    /\ op = "none"
    /\ seg1 \in Segs
    /\ point \in Points
    /\ seg2 = NoSeg
    /\ mat = <<>>
    /\ prev = 0
    /\ ret = 0
    /\ FracIdle

side_call ==
    /\ op = "none"
    /\ op' = "side"
    /\ ret' = side(seg1, point)
    /\ UNCHANGED <<geoVars, detVars, fracVars>>

seg_contains_call ==
    /\ op = "none"
    /\ op' = "seg_contains"
    /\ ret' = seg_contains(seg1, point)
    /\ UNCHANGED <<geoVars, detVars, fracVars>>

PointNext ==
    \/ side_call
    \/ seg_contains_call

PointSpec == PointInit /\ [][PointNext]_vars

----------------------------------------------------------------------------
(* DetSpec: det of a matrix, then det again after two rows are swapped *)

DetInit ==
    /\ op = "none"
    /\ mat \in Mats2 \cup Mats3
    /\ prev = 0
    /\ ret = 0
    /\ seg1 = NoSeg
    /\ seg2 = NoSeg
    /\ point = NoPoint
    /\ FracIdle

\* The overload of det that the matrix type selects.
det(m) == IF Len(m) = 4 THEN det2(m) ELSE det3(m)

Dim(m) == IF Len(m) = 4 THEN 2 ELSE 3

\* Rows i and j exchanged through operator[]: element (col, row) of an
\* N x N matrix is vals[row * N + col].
SwapRows(m, i, j) ==
    LET n == Dim(m)
        rowOf(k) == (k - 1) \div n
        colOf(k) == (k - 1) % n
        src(k) == IF rowOf(k) = i THEN j * n + colOf(k) + 1
                  ELSE IF rowOf(k) = j THEN i * n + colOf(k) + 1
                  ELSE k
    IN  [k \in 1..Len(m) |-> m[src(k)]]

det_call ==
    /\ op = "none"
    /\ op' = "det"
    /\ ret' = det(mat)
    /\ UNCHANGED <<mat, prev, geoVars, fracVars>>

swap_rows_det_call ==
    /\ op = "det"
    /\ \E i, j \in 0..(Dim(mat) - 1) :
        /\ i < j
        /\ mat' = SwapRows(mat, i, j)
    /\ prev' = ret
    /\ ret' = det(mat')
    /\ op' = "det_swapped"
    /\ UNCHANGED <<geoVars, fracVars>>

DetNext ==
    \/ det_call
    \/ swap_rows_det_call

DetSpec == DetInit /\ [][DetNext]_vars

----------------------------------------------------------------------------
(* SegsSpec: one call of a function of two segments *)

SegsInit ==
    /\ op = "none"
    /\ seg1 \in Segs
    /\ seg2 \in Segs
    /\ point = NoPoint
    /\ mat = <<>>
    /\ prev = 0
    /\ ret = 0
    /\ FracIdle

seg_intersects_call ==
    /\ op = "none"
    /\ op' = "seg_intersects"
    /\ ret' = seg_intersects(seg1, seg2)
    /\ UNCHANGED <<geoVars, detVars, fracVars>>

seg_intersection_call ==
    /\ op = "none"
    /\ op' = "seg_intersection"
    /\ ret' = seg_intersection(seg1, seg2)
    /\ UNCHANGED <<geoVars, detVars, fracVars>>

SegsNext ==
    \/ seg_intersects_call
    \/ seg_intersection_call

SegsSpec == SegsInit /\ [][SegsNext]_vars

----------------------------------------------------------------------------
(* Spec: Fraction objects are constructed, reduced and destroyed, and      *)
(* seg_intersection returns points of fractions. reduce() is followed      *)
(* through the iterations of gcd's loop.                                   *)

Init ==
    /\ op = "none"
    /\ seg1 = NoSeg
    /\ seg2 = NoSeg
    /\ point = NoPoint
    /\ mat = <<>>
    /\ prev = 0
    /\ ret = NoRet
    /\ FracIdle

\* Fraction(n, d): the constructor either adds one object or throws.
Fraction_call(n, d) ==
    /\ pc = "idle"
    /\ Cardinality(fracs \cup Fraction(n, d)) <= MaxFracs
    /\ fracs' = fracs \cup Fraction(n, d)
    /\ err' = IF Fraction(n, d) = {} THEN "domain_error" ELSE "none"
    /\ op' = "Fraction"
    /\ args' = <<n, d>>
    /\ cur' = NoFrac
    /\ form' = "none"
    /\ ret' = NoRet
    /\ UNCHANGED <<pc, a, b, geoVars, detVars>>

\* The end of an object's lifetime.
destroy_call(f) ==
    /\ pc = "idle"
    /\ fracs' = fracs \ {f}
    /\ err' = "none"
    /\ op' = "destroy"
    /\ args' = <<>>
    /\ cur' = NoFrac
    /\ form' = "none"
    /\ ret' = NoRet
    /\ UNCHANGED <<pc, a, b, geoVars, detVars>>

\* f.reduce() is entered, in the overload fm: gcd(num, den) is called.
reduce_call(f, fm) ==
    /\ pc = "idle"
    /\ pc' = "gcd"
    /\ cur' = f
    /\ form' = fm
    /\ a' = f.num
    /\ b' = f.den
    /\ op' = "reduce"
    /\ args' = <<>>
    /\ err' = "none"
    /\ ret' = NoRet
    /\ UNCHANGED <<fracs, geoVars, detVars>>

\* One iteration of gcd's loop: c = b; b = a % b; a = c.
gcd_iter ==
    /\ pc = "gcd"
    /\ b # 0
    /\ a' = b
    /\ b' = Rem(a, b)
    /\ UNCHANGED <<op, args, ret, fracs, pc, cur, form, err, geoVars, detVars>>

\* gcd returns a (div) and reduce() divides by it. The in-place overload
\* changes *this, and ret shows its new value; the other overload leaves
\* *this alone and returns a new Fraction in ret. Dividing by a zero div is
\* undefined behaviour; a constructor that throws inside the noexcept function
\* ends the program.
reduce_return ==
    /\ pc = "gcd"
    /\ b = 0
    /\ IF a = 0
       THEN /\ pc' = "undefined"
            /\ UNCHANGED <<fracs, ret>>
       ELSE IF form = "inplace"
       THEN /\ pc' = "idle"
            /\ fracs' = (fracs \ {cur}) \cup {reduce_inplace(cur, a)}
            /\ ret' = reduce_inplace(cur, a)
       ELSE IF reduce_const(cur, a) = {}
       THEN /\ pc' = "terminate"
            /\ UNCHANGED <<fracs, ret>>
       ELSE /\ pc' = "idle"
            /\ ret' = CHOOSE f \in reduce_const(cur, a) : TRUE
            /\ UNCHANGED fracs
    /\ a' = 0
    /\ b' = 0
    /\ UNCHANGED <<op, args, cur, form, err, geoVars, detVars>>

\* seg_intersection(s1, s2). It takes no Fraction, so it is called while the
\* caller holds none; the two fractions of its result live in ret.
seg_intersection_fracs(s1, s2) ==
    /\ pc = "idle"
    /\ fracs = {}
    /\ ret' = seg_intersection(s1, s2)
    /\ pc' = IF ret'.kind \in {"terminate", "undefined"} THEN ret'.kind ELSE "idle"
    /\ op' = "seg_intersection"
    /\ args' = <<>>
    /\ err' = "none"
    /\ cur' = NoFrac
    /\ form' = "none"
    /\ UNCHANGED <<fracs, a, b, geoVars, detVars>>

Next ==
    \/ \E n, d \in Nums : Fraction_call(n, d)
    \/ \E f \in fracs : destroy_call(f)
    \/ \E f \in fracs, fm \in {"const", "inplace"} : reduce_call(f, fm)
    \/ gcd_iter
    \/ reduce_return
    \/ \E s1, s2 \in SmallSegs : seg_intersection_fracs(s1, s2)

Spec == Init /\ [][Next]_vars

----------------------------------------------------------------------------
(* ReduceSpec: one Fraction(n, d) is constructed and reduce() is called on *)
(* it, in either overload, any number of times.                            *)

ReduceInit ==
    /\ op = "Fraction"
    /\ \E n, d \in ReduceNums :
        /\ args = <<n, d>>
        /\ fracs = Fraction(n, d)
        /\ fracs # {}
    /\ seg1 = NoSeg
    /\ seg2 = NoSeg
    /\ point = NoPoint
    /\ mat = <<>>
    /\ prev = 0
    /\ ret = NoRet
    /\ pc = "idle"
    /\ cur = NoFrac
    /\ form = "none"
    /\ a = 0
    /\ b = 0
    /\ err = "none"

ReduceNext ==
    \/ \E f \in fracs, fm \in {"const", "inplace"} : reduce_call(f, fm)
    \/ gcd_iter
    \/ reduce_return

ReduceSpec == ReduceInit /\ [][ReduceNext]_vars

\* reduce() runs on one thread: once entered, its loop goes on and returns.
FairReduceSpec == ReduceSpec /\ WF_vars(gcd_iter) /\ WF_vars(reduce_return)

----------------------------------------------------------------------------
(* Geometry the claims are stated in, written from the claims' own words *)

\* (B - A) x (P - A): positive exactly when P is strictly left of A -> B
\* in the standard orientation (x to the right, y up).
Cross(A, B, P) == (B.x - A.x) * (P.y - A.y) - (B.y - A.y) * (P.x - A.x)

InBox(seg, p) ==
    /\ Min(seg.first.x, seg.second.x) <= p.x
    /\ p.x <= Max(seg.first.x, seg.second.x)
    /\ Min(seg.first.y, seg.second.y) <= p.y
    /\ p.y <= Max(seg.first.y, seg.second.y)

\* p is collinear with seg and inside its bounding box.
LiesOn(seg, p) == Cross(seg.first, seg.second, p) = 0 /\ InBox(seg, p)

\* p and q are strictly on opposite sides of the line through seg.
Opposite(seg, p, q) ==
    \/ Cross(seg.first, seg.second, p) > 0 /\ Cross(seg.first, seg.second, q) < 0
    \/ Cross(seg.first, seg.second, p) < 0 /\ Cross(seg.first, seg.second, q) > 0

Rev(seg) == Seg(seg.second, seg.first)

Divides(k, v) == Abs(v) % k = 0

\* num/den is in lowest terms: no k > 1 divides both.
LowestTerms(f) ==
    /\ f.den # 0
    /\ \A k \in 2..Max(Abs(f.num), Abs(f.den)) : ~(Divides(k, f.num) /\ Divides(k, f.den))

----------------------------------------------------------------------------
(* Claims about side and seg_contains, under PointSpec *)

\* C1: seg_contains(seg, P) is true if and only if side(seg, P) = 0 and P is
\* inside the segment's bounding box on both axes.
C1_SegContainsIffCollinearInBox ==
    op = "seg_contains" =>
        (ret <=> (side(seg1, point) = 0 /\ InBox(seg1, point)))

\* C3: for A # B, side((A,B), P) is -1 when P is strictly left of A -> B in
\* the standard orientation, 0 when collinear, +1 when strictly right.
C3_SideLeftIsMinusOne ==
    (op = "side" /\ seg1.first # seg1.second) =>
        ret = (IF Cross(seg1.first, seg1.second, point) > 0 THEN -1
               ELSE IF Cross(seg1.first, seg1.second, point) = 0 THEN 0
               ELSE 1)

\* C8: reversing the segment's direction negates side:
\* side((A,B), P) = -side((B,A), P).
C8_SideAntisymmetric ==
    op = "side" => ret = -side(Rev(seg1), point)

C8_Witness ==
    /\ op = "side"
    /\ ret = 1
    /\ side(Rev(seg1), point) = -1

----------------------------------------------------------------------------
(* Claim about det, under DetSpec *)

\* C9: swapping any two rows of a 2x2 or 3x3 matrix negates det.
C9_DetRowSwapNegates ==
    op = "det_swapped" => ret = -prev

C9_Witness ==
    /\ op = "det_swapped"
    /\ Len(mat) = 9
    /\ prev = 2
    /\ ret = -2

----------------------------------------------------------------------------
(* Claims about seg_intersects and seg_intersection, under SegsSpec *)

\* C2: seg_intersects(seg1, seg2) is true if and only if the segments cross
\* properly (each segment's endpoints strictly on opposite sides of the other's
\* line) or one of the four endpoints lies on the other segment.
C2_SegIntersectsIff ==
    op = "seg_intersects" =>
        (ret <=> \/ (Opposite(seg1, seg2.first, seg2.second)
                       /\ Opposite(seg2, seg1.first, seg1.second))
                 \/ LiesOn(seg1, seg2.first)
                 \/ LiesOn(seg1, seg2.second)
                 \/ LiesOn(seg2, seg1.first)
                 \/ LiesOn(seg2, seg1.second))

\* C7: two segments that share an endpoint intersect.
C7_SharedEndpointIntersects ==
    (/\ op = "seg_intersects"
     /\ {seg1.first, seg1.second} \cap {seg2.first, seg2.second} # {}) =>
        ret = TRUE

\* C4: seg_intersection is absent exactly when den_det = 0; otherwise it is a
\* point of two fractions in lowest terms, equal to x_num/den_det and
\* y_num/den_det, that lies on both infinite lines.
C4_SegIntersectionExact ==
    op = "seg_intersection" =>
        LET A == seg1.first
            B == seg1.second
            C == seg2.first
            D == seg2.second
            dd == (A.x - B.x) * (C.y - D.y) - (A.y - B.y) * (C.x - D.x)
            x == ret.x
            y == ret.y
            \* Cross(P, Q, (x, y)) scaled by x.den * y.den
            OnLine(P, Q) ==
                (Q.x - P.x) * (y.num * x.den - P.y * y.den * x.den)
                    = (Q.y - P.y) * (x.num * y.den - P.x * x.den * y.den)
        IN  /\ (ret.kind = "absent") <=> (dd = 0)
            /\ dd # 0 =>
                /\ ret.kind = "point"
                /\ LowestTerms(x)
                /\ LowestTerms(y)
                /\ x.num * dd = x_num(seg1, seg2) * x.den
                /\ y.num * dd = y_num(seg1, seg2) * y.den
                /\ OnLine(A, B)
                /\ OnLine(C, D)

C4_Witness ==
    /\ op = "seg_intersection"
    /\ ret.kind = "point"
    /\ Abs(ret.x.den) = 2
    /\ Abs(den_det(seg1, seg2)) = 4

\* C10: seg_intersection returns the same fields whatever the order of the
\* two segments and of each segment's endpoints.
C10_SegIntersectionOrderFree ==
    op = "seg_intersection" =>
        /\ ret = seg_intersection(seg2, seg1)
        /\ ret = seg_intersection(Rev(seg1), seg2)
        /\ ret = seg_intersection(seg1, Rev(seg2))

C10_Witness ==
    /\ op = "seg_intersection"
    /\ ret.kind = "point"
    /\ ret.x.den < 0
    /\ ret.x.num > 0
    /\ den_det(seg2, seg1) = -den_det(seg1, seg2)

----------------------------------------------------------------------------
(* Claims about Fraction, under Spec and FairReduceSpec *)

\* Every Fraction object: the live ones, and the one a call returned.
AllFracs ==
    fracs \cup
        (IF op = "seg_intersection" /\ ret.kind = "point" THEN {ret.x, ret.y}
         ELSE IF op = "reduce" /\ pc = "idle" THEN {ret}
         ELSE {})

\* C5: Fraction(n, 0) throws the domain error and creates no fraction,
\* Fraction(n, d) with d # 0 stores n and d unchanged, every Fraction that
\* exists has den # 0, reduce never divides by a zero gcd, and
\* seg_intersection never makes a constructor throw.
C5_NoZeroDenominator ==
    /\ [](/\ \A f \in AllFracs : f.den # 0
          /\ pc \in {"idle", "gcd"}
          /\ IF op = "Fraction"
             THEN IF args[2] = 0
                  THEN err = "domain_error"
                  ELSE err = "none" /\ [num |-> args[1], den |-> args[2]] \in fracs
             ELSE err = "none")
    /\ [][(op' = "Fraction" /\ err' = "domain_error") => fracs' = fracs]_vars

C5_Witness ==
    /\ op = "Fraction"
    /\ args = <<0, 0>>
    /\ err = "domain_error"
    /\ \E f \in fracs : f.num = 0

\* What C6 says of a reduce() that has returned.
ReduceDone ==
    IF op = "reduce" /\ pc = "idle" /\ cur.num # 0
    THEN /\ ret.num * cur.den = cur.num * ret.den
         /\ LowestTerms(ret)
         /\ IF form = "inplace" THEN ret \in fracs ELSE cur \in fracs
    ELSE TRUE

\* C6: for nonzero n and d, reducing Fraction(n, d) with either overload
\* terminates and yields num, den with num * d = n * den and num/den in
\* lowest terms.
C6_ReduceLowestTerms ==
    /\ []ReduceDone
    /\ (pc = "gcd") ~> (pc = "idle")

C6_Witness ==
    /\ op = "reduce"
    /\ pc = "idle"
    /\ form = "const"
    /\ cur = [num |-> -6, den |-> 4]
    /\ ret = [num |-> 3, den |-> -2]

====
